---- MODULE Spec2Model ----
(***************************************************************************)
(* SCORM package inspector (scorm_app_v12.py): manifest validation,        *)
(* metadata extraction, namespace resolution, structure building,          *)
(* flattening, and the session cache of the Streamlit script.              *)
(*                                                                         *)
(* Representation of Python values                                         *)
(*   str       a sequence of one-character strings; a literal part of an   *)
(*             f-string or a fixed text is kept as one multi-character     *)
(*             token, so every str is a sequence of strings                *)
(*   None      (where a str is expected) the one-token sequence None       *)
(*   Element   find() returns NoNode (<<>>) or <<element record>>;         *)
(*             findall() returns a sequence of element records             *)
(*   dict      a function whose DOMAIN is the set of keys present          *)
(*   result    parse_scorm returns NoResult (<<>>, Python's None) or       *)
(*             <<result record>>                                           *)
(*   file_id   a positive number; NoFileId (0) is Python's None             *)
(*   a call    [raised, exception, value] where the callee can raise;      *)
(*             raised = TRUE is the named exception leaving the callee     *)
(***************************************************************************)
EXTENDS Integers, Sequences, FiniteSets, TLC

VARIABLES
    scorm_file,         \* the package handed to the core: zip container, entry names, manifest
    pc,                 \* which operations have run on scorm_file
    findings,           \* value returned by validate_scorm_package
    metadata,           \* outcome of extract_metadata
    ns,                 \* parse_scorm's namespace dictionary
    analysis,           \* outcome of parse_scorm
    flat_list,          \* value returned by flatten_structure
    analysis_data,      \* st.session_state.analysis_data
    file_processed_id,  \* st.session_state.file_processed_id
    uploaded_file,      \* value of the file_uploader widget
    input_method,       \* value of the radio widget
    rerun_pending,      \* a script run has been requested and has not run yet
    last_step,          \* what ran last: a callback, a rerun request, a script run
    uploads             \* the package of every upload so far; an upload's file_id is its index

vars == <<scorm_file, pc, findings, metadata, ns, analysis, flat_list,
          analysis_data, file_processed_id, uploaded_file, input_method,
          rerun_pending, last_step, uploads>>

coreVars == <<scorm_file, pc, findings, metadata, ns, analysis, flat_list>>
sessionVars == <<analysis_data, file_processed_id, uploaded_file, input_method,
                 rerun_pending, last_step, uploads>>

----------------------------------------------------------------------------
(* Bounds of the model *)

MaxElements == 3    \* item elements plus resource elements of a manifest
MaxItems == 3       \* item elements of a manifest whose tree shape varies
MaxUriLen == 2      \* characters of the root element's namespace URI
MaxFiles == 3       \* uploads in one session

----------------------------------------------------------------------------
(* Python values *)

None == <<"<None>">>
NoNode == <<>>
NoResult == <<>>
NoFileId == 0
EmptyDict == [k \in {} |-> None]

Truthy(s) == s # None /\ s # <<>>

\* str(x) as an f-string renders it
Str(x) == IF x = None THEN <<"N", "o", "n", "e">> ELSE x

Chars(s) == {s[i] : i \in 1..Len(s)}

\* s.replace(a, b) for one-character a and b
Replace(s, a, b) == [i \in 1..Len(s) |-> IF s[i] = a THEN b ELSE s[i]]

\* s.split(c)[0]: the part of s before the first c, all of s when c is not in s
SplitFirst(s, c) ==
    IF c \notin Chars(s) THEN s
    ELSE LET k == CHOOSE i \in 1..Len(s) : s[i] = c /\ \A j \in 1..(i-1) : s[j] # c
         IN SubSeq(s, 1, k - 1)

\* s.strip(): leading and trailing blanks removed
Strip(s) ==
    LET keep == {i \in 1..Len(s) : s[i] # " "}
    IN IF keep = {} THEN <<>>
       ELSE LET lo == CHOOSE i \in keep : \A j \in keep : i <= j
                hi == CHOOSE i \in keep : \A j \in keep : j <= i
            IN SubSeq(s, lo, hi)

UpperChar(c) ==
    CASE c = "a" -> "A" [] c = "c" -> "C" [] c = "e" -> "E"
      [] c = "o" -> "O" [] c = "s" -> "S" [] c = "t" -> "T"
      [] OTHER -> c

\* s.upper()
Upper(s) == [i \in 1..Len(s) |-> UpperChar(s[i])]

\* root.find(...) over the matches of root.findall(...): the first match or None
Find(matches) == IF matches = <<>> THEN NoNode ELSE <<matches[1]>>

\* the subsequence of s at the indices in idx, in order
RECURSIVE Pick(_, _, _)
Pick(s, idx, from) ==
    IF from > Len(s) THEN <<>>
    ELSE (IF from \in idx THEN <<s[from]>> ELSE <<>>) \o Pick(s, idx, from + 1)

\* node.find(path) for a child the element record keeps in `field`
Child(node, field) == IF node = NoNode THEN NoNode ELSE node[1][field]

----------------------------------------------------------------------------
(* Fixed texts of the program *)

NA == <<"N", "/", "A">>
ASSET == <<"a", "s", "s", "e", "t">>
SCO == <<"s", "c", "o">>
ManifestName == <<"imsmanifest.xml">>

----------------------------------------------------------------------------
(* find_text_or_default *)

find_text_or_default(node, found_node, default) ==
    IF node = NoNode THEN default
    ELSE IF found_node # NoNode /\ Truthy(found_node[1].text)
         THEN Strip(found_node[1].text)
         ELSE default

----------------------------------------------------------------------------
(* The item tree of a manifest: items in document order, each with its     *)
(* nesting depth (1: directly under its container).                        *)

\* index just past the subtree of item k
SubtreeEnd(items, k) ==
    LET later == {j \in (k+1)..Len(items) : items[j].depth <= items[k].depth}
    IN IF later = {} THEN Len(items) + 1
       ELSE CHOOSE j \in later : \A l \in later : j <= l

IsDescendant(items, d, k) == k < d /\ d < SubtreeEnd(items, k)

\* the item elements directly under item k (k = 0: directly under the container)
ChildItems(items, k) ==
    IF k = 0 THEN {j \in 1..Len(items) : items[j].depth = 1}
    ELSE {j \in 1..Len(items) : IsDescendant(items, j, k)
                                /\ items[j].depth = items[k].depth + 1}

----------------------------------------------------------------------------
(* validate_scorm_package *)

VersionFinding(root) ==
    LET sequencing_node == Find(root.sequencing)
        version == IF sequencing_node # NoNode THEN "SCORM 2004" ELSE "SCORM 1.2"
    IN [level |-> "INFO", message |-> <<"Detected Version: ", version, ".">>]

IsBrokenLink_NoTruthTest(item, resource_ids) ==
    item.identifierref \notin resource_ids

IsBrokenLink(item, resource_ids) ==
    LET ref == item.identifierref
    IN Truthy(ref) /\ ref \notin resource_ids

BrokenLinkFinding(item) ==
    [level |-> "ERROR",
     message |-> <<"Broken Link: Item '">> \o Str(item.identifier)
                 \o <<"' references non-existent resource '">>
                 \o item.identifierref \o <<"'.">>]

IsMissingFile_NoNormalize(resource, zip_files) ==
    LET href == resource.href
    IN Truthy(href) /\ href \notin zip_files

IsMissingFile(resource, zip_files) ==
    LET href == resource.href
    IN Truthy(href) /\ Replace(href, "\\", "/") \notin zip_files

MissingFileFinding(resource) ==
    [level |-> "ERROR",
     message |-> <<"Missing File: Resource '">> \o Str(resource.identifier)
                 \o <<"' points to '">> \o resource.href
                 \o <<"' which is missing from the zip.">>]

validate_scorm_package(namelist, root) ==
    LET zip_files == namelist
        resource_nodes == root.resources
        item_nodes == root.items
        resource_ids == {resource_nodes[i].identifier : i \in 1..Len(resource_nodes)}
        broken == {i \in 1..Len(item_nodes) : IsBrokenLink(item_nodes[i], resource_ids)}
        missing == {i \in 1..Len(resource_nodes) :
                        IsMissingFile(resource_nodes[i], zip_files)}
        brokenItems == Pick(item_nodes, broken, 1)
        missingRes == Pick(resource_nodes, missing, 1)
    IN <<VersionFinding(root)>>
       \o [i \in 1..Len(brokenItems) |-> BrokenLinkFinding(brokenItems[i])]
       \o [i \in 1..Len(missingRes) |-> MissingFileFinding(missingRes[i])]

----------------------------------------------------------------------------
(* extract_metadata *)

\* first_item.find('.//adlcp:masteryscore'): the first masteryscore element in
\* document order inside the first item. An item's masteryscore element follows
\* its nested items (the content-packaging schema puts title, item*, metadata
\* before the extension elements), so a nested item's element comes first.
FirstMasteryScore(items, k) ==
    LET cand == {j \in 1..Len(items) :
                    /\ (j = k \/ IsDescendant(items, j, k))
                    /\ items[j].masteryscore # NoNode}
        Before(a, b) == IF IsDescendant(items, a, b) THEN TRUE
                        ELSE IF IsDescendant(items, b, a) THEN FALSE
                        ELSE a < b
    IN IF cand = {} THEN NoNode
       ELSE items[CHOOSE j \in cand : \A l \in cand \ {j} : Before(j, l)].masteryscore

\* The XPath predicate [@identifier='<ref>'] is built by interpolating ref into
\* the path. With an apostrophe in ref (and no ']' to close the predicate early)
\* the quoted string ends at that apostrophe and the rest of ref is a further
\* token of the same predicate: ElementPath raises SyntaxError("invalid predicate").
XPathPredicateRaises(ref) == "'" \in Chars(ref) /\ "]" \notin Chars(ref)

\* root.find(".//imscp:resource[@identifier='<ref>']")
FindResourceById(root, ref) ==
    LET hits == {i \in 1..Len(root.resources) : root.resources[i].identifier = ref}
    IN Find(Pick(root.resources, hits, 1))

\* resource.get('{adlcp}scormtype', 'asset')
ScormType_NoDefault(resource) == resource.scormtype

ScormType(resource) ==
    IF resource.scormtype = None THEN ASSET ELSE resource.scormtype

\* resource.get('href', 'N/A')
HrefOrNA(resource) == IF resource.href = None THEN NA ELSE resource.href

\* the 'Launch File' and 'SCORM Type (Primary)' entries
LaunchEntries_Always(root, first_item_ref) ==
    LET resource_node == IF Truthy(first_item_ref)
                         THEN FindResourceById(root, first_item_ref) ELSE NoNode
    IN IF resource_node # NoNode
       THEN ("Launch File" :> HrefOrNA(resource_node[1]))
            @@ ("SCORM Type (Primary)" :> Upper(ScormType(resource_node[1])))
       ELSE ("Launch File" :> NA) @@ ("SCORM Type (Primary)" :> NA)

LaunchEntries(root, first_item_ref) ==
    IF Truthy(first_item_ref)
    THEN LET resource_node == FindResourceById(root, first_item_ref)
         IN IF resource_node # NoNode
            THEN ("Launch File" :> HrefOrNA(resource_node[1]))
                 @@ ("SCORM Type (Primary)" :> Upper(ScormType(resource_node[1])))
            ELSE EmptyDict
    ELSE EmptyDict

\* sum(1 for r in resources if r.get('{adlcp}scormtype', 'asset') == type)
CountType(resources, type) ==
    Cardinality({i \in 1..Len(resources) : ScormType(resources[i]) = type})

\* bool(element): an Element is true when it has child elements
ElementTruth(node) == node # NoNode /\ node[1].children # <<>>

SequencingRules(sequencing_node) ==
    LET kids == sequencing_node[1].children
        cm == {i \in 1..Len(kids) : kids[i].tag = "controlMode"}
        control_mode == Find(Pick(kids, cm, 1))
    IN IF control_mode # NoNode
       THEN ("Flow" :> (IF control_mode[1].flow = <<"true">>
                        THEN <<"Forced/Linear">> ELSE <<"User Choice">>))
            @@ ("Forward Only" :> (IF control_mode[1].forwardOnly = None
                                   THEN <<"false">> ELSE control_mode[1].forwardOnly))
       ELSE EmptyDict

SequencingEntries(root) ==
    LET sequencing_node == Find(root.sequencing)
    IN IF ElementTruth(sequencing_node)
       THEN "Sequencing Rules" :> SequencingRules(sequencing_node)
       ELSE EmptyDict

extract_metadata(root) ==
    LET meta_node == Find(root.metadata)
        first_item == Find(root.items)
        first_item_ref == first_item[1].identifierref
        described ==
            ("Description" :> find_text_or_default(meta_node, Child(meta_node, "description"), NA))
            @@ ("Keywords" :> find_text_or_default(meta_node, Child(meta_node, "keywords"), NA))
        scored ==
            IF first_item # NoNode
            THEN "Passing Score" :>
                    find_text_or_default(first_item, FirstMasteryScore(root.items, 1), NA)
            ELSE EmptyDict
        launched ==
            IF first_item # NoNode THEN LaunchEntries(root, first_item_ref) ELSE EmptyDict
        counted ==
            ("SCO Count" :> CountType(root.resources, SCO))
            @@ ("Asset Count" :> CountType(root.resources, ASSET))
    IN IF first_item # NoNode /\ Truthy(first_item_ref)
          /\ XPathPredicateRaises(first_item_ref)
       THEN [raised |-> TRUE, exception |-> "SyntaxError", value |-> EmptyDict]
       ELSE [raised |-> FALSE, exception |-> "",
             value |-> described @@ scored @@ launched @@ counted
                       @@ SequencingEntries(root)]

----------------------------------------------------------------------------
(* parse_scorm *)

DropFirst(s) == IF s = <<>> THEN <<>> ELSE Tail(s)

KnownNamespaces ==
    ("adlcp" :> <<"http://www.adlnet.org/xsd/adlcp_v1p3">>)
    @@ ("imsss" :> <<"http://www.imsglobal.org/xsd/imsss_v1p0">>)
    @@ ("lom" :> <<"http://ltsc.ieee.org/xsd/LOM">>)

ResolveNamespaces_Hardcoded(root_tag) ==
    KnownNamespaces @@ ("imscp" :> <<"http://www.imsglobal.org/xsd/imscp_v1p1">>)

\* the namespace dictionary built from the root tag
ResolveNamespaces(root_tag) ==
    KnownNamespaces
    @@ ("imscp" :> (IF "}" \in Chars(root_tag)
                    THEN DropFirst(SplitFirst(root_tag, "}"))
                    ELSE <<>>))

\* {res.get('identifier'): res.get('href') for res in ...}: a later resource
\* replaces an earlier one with the same identifier
ResourcesDict(resources) ==
    LET ids == {resources[i].identifier : i \in 1..Len(resources)}
        Last(id) == CHOOSE i \in 1..Len(resources) :
                        /\ resources[i].identifier = id
                        /\ \A j \in (i+1)..Len(resources) : resources[j].identifier # id
    IN [id \in ids |-> resources[Last(id)].href]

\* d.get(key)
DictGet(d, key) == IF key \in DOMAIN d THEN d[key] ELSE None

\* parse_items(parent_element), the parent being item k (0: the organization)
RECURSIVE parse_items(_, _, _)
parse_items(items, resources, k) ==
    LET kids == Pick([i \in 1..Len(items) |-> i], ChildItems(items, k), 1)
    IN [n \in 1..Len(kids) |->
          LET item_element == items[kids[n]]
          IN [identifier |-> item_element.identifier,
              title |-> find_text_or_default(<<item_element>>, item_element.title,
                                             <<"No Title">>),
              resource_href |-> DictGet(resources, item_element.identifierref),
              sub_items |-> parse_items(items, resources, kids[n])]]

Return(v) == [raised |-> FALSE, exception |-> "", value |-> v]
Raise(e) == [raised |-> TRUE, exception |-> e, value |-> NoResult]

\* the body of parse_scorm's try statement
ParseScormBody(scorm_file_object, source_name) ==
    IF ~scorm_file_object.is_zip THEN Raise("BadZipFile")
    ELSE IF ManifestName \notin scorm_file_object.namelist THEN Return(NoResult)
    ELSE IF ~scorm_file_object.well_formed THEN Raise("ParseError")
    ELSE
      LET root == scorm_file_object.root
          validation_results == validate_scorm_package(scorm_file_object.namelist, root)
          extracted == extract_metadata(root)
          resources == ResourcesDict(root.resources)
          org_element == Find(root.organization)
      IN IF extracted.raised THEN Raise(extracted.exception)
         ELSE IF org_element = NoNode
         THEN Return(<<[source |-> source_name,
                        course_title |-> <<"Unknown">>,
                        structure |-> <<>>,
                        metadata |-> extracted.value,
                        validation |-> validation_results]>>)
         ELSE Return(<<[source |-> source_name,
                        course_title |->
                            find_text_or_default(org_element, Child(org_element, "title"),
                                                 <<"Untitled Course">>),
                        structure |-> parse_items(root.items, resources, 0),
                        metadata |-> extracted.value,
                        validation |-> validation_results]>>)

\* except Exception: the exceptions the handler catches
Handles_OnlyBadZip(exception) == exception = "BadZipFile"

Handles(exception) == exception \in {"BadZipFile", "ParseError", "SyntaxError"}

parse_scorm(scorm_file_object, source_name) ==
    LET body == ParseScormBody(scorm_file_object, source_name)
    IN IF body.raised /\ Handles(body.exception) THEN Return(NoResult) ELSE body

\* the namespace dictionary of a run of parse_scorm that reaches its line 119
NamespacesOf(scorm_file_object) ==
    IF scorm_file_object.is_zip /\ ManifestName \in scorm_file_object.namelist
       /\ scorm_file_object.well_formed
    THEN ResolveNamespaces(scorm_file_object.root.root_tag)
    ELSE EmptyDict

----------------------------------------------------------------------------
(* flatten_structure *)

Separator == <<" ", "-", ">", " ">>

FlatRow(item, current_title) ==
    IF Truthy(item.resource_href)
    THEN <<[Path |-> current_title, File |-> item.resource_href,
            Identifier |-> item.identifier]>>
    ELSE <<>>

RECURSIVE flatten_structure_ChildrenFirst(_, _)
flatten_structure_ChildrenFirst(items, parent_title) ==
    IF items = <<>> THEN <<>>
    ELSE LET item == Head(items)
             current_title == parent_title \o item.title
         IN (IF item.sub_items # <<>>
             THEN flatten_structure_ChildrenFirst(item.sub_items,
                                                  current_title \o Separator)
             ELSE <<>>)
            \o FlatRow(item, current_title)
            \o flatten_structure_ChildrenFirst(Tail(items), parent_title)

RECURSIVE flatten_structure(_, _)
flatten_structure(items, parent_title) ==
    IF items = <<>> THEN <<>>
    ELSE LET item == Head(items)
             current_title == parent_title \o item.title
         IN FlatRow(item, current_title)
            \o (IF item.sub_items # <<>>
                THEN flatten_structure(item.sub_items, current_title \o Separator)
                ELSE <<>>)
            \o flatten_structure(Tail(items), parent_title)

----------------------------------------------------------------------------
(* Inputs: manifests and packages *)

Text(t) == <<[text |-> t]>>

R1 == <<"r", "1">>
R2 == <<"r", "2">>
RQ == <<"r", "'">>
I1 == <<"i", "1">>
FileSlash == <<"a", "/", "b">>
FileBackslash == <<"a", "\\", "b">>
FileOther == <<"c">>

\* every sequence over S of length n, and of length at most n
SeqsOfLen(S, n) == [1..n -> S]
SeqsUpTo(S, n) == UNION {SeqsOfLen(S, k) : k \in 0..n}

\* items in document order form a tree: the first is at depth 1 and each next
\* one is at most one level deeper than the one before
WellNested(items) ==
    /\ items # <<>> => items[1].depth = 1
    /\ \A i \in 2..Len(items) : items[i].depth <= items[i-1].depth + 1

Manifest(tag, meta, org, items, resources, sequencing) ==
    [root_tag |-> tag, metadata |-> meta, organization |-> org,
     items |-> items, resources |-> resources, sequencing |-> sequencing]

Package(names, root) ==
    [is_zip |-> TRUE, namelist |-> names, well_formed |-> TRUE, root |-> root]

PlainTag == <<"manifest">>

\* items and resources whose references, identifiers and hrefs vary
RefItems ==
    [depth : {1}, identifier : {None, I1}, title : {NoNode},
     identifierref : {None, <<>>, R1, R2}, masteryscore : {NoNode}]
RefResources ==
    [identifier : {None, R1}, href : {None, <<>>, FileSlash, FileBackslash, FileOther},
     scormtype : {None}]
IsRefPackage(package, n) ==
    \E names \in SUBSET {FileSlash, FileBackslash}, i \in 0..n, r \in 0..n :
        /\ i + r <= n
        /\ \E items \in SeqsOfLen(RefItems, i), resources \in SeqsOfLen(RefResources, r) :
              package = Package({ManifestName} \cup names,
                                Manifest(PlainTag, <<>>, <<>>, items, resources, <<>>))

\* items and resources whose resource types and launch data vary
TypeItems ==
    [depth : {1}, identifier : {I1}, title : {NoNode},
     identifierref : {None, <<>>, R1, R2, RQ}, masteryscore : {NoNode}]
TypeResources ==
    [identifier : {R1}, href : {None, FileSlash},
     scormtype : {None, SCO, ASSET, <<"S", "C", "O">>}]
IsTypePackage(package, n) ==
    \E i \in 0..n, r \in 0..n :
        /\ i + r <= n
        /\ \E items \in SeqsOfLen(TypeItems, i), resources \in SeqsOfLen(TypeResources, r) :
              package = Package({ManifestName},
                                Manifest(PlainTag, <<>>, <<>>, items, resources, <<>>))

\* manifests whose metadata, mastery scores and sequencing nodes vary
ControlModes ==
    [tag : {"controlMode"}, flow : {None, <<"true">>, <<"false">>},
     forwardOnly : {None, <<"true">>}]
OtherChild == [tag |-> "limitConditions", flow |-> None, forwardOnly |-> None]
SequencingNodes ==
    {[children |-> <<>>], [children |-> <<OtherChild>>]}
    \cup {[children |-> <<c>>] : c \in ControlModes}
    \cup {[children |-> <<OtherChild, c>>] : c \in ControlModes}
SequencingLists ==
    {<<>>} \cup {<<n>> : n \in SequencingNodes}
    \cup {<<[children |-> <<>>], n>> : n \in SequencingNodes}
MetadataLists ==
    {<<>>}
    \cup {<<[description |-> d, keywords |-> k]>> :
            d \in {NoNode, Text(None), Text(<<" ">>), Text(<<" ", "d", " ">>)},
            k \in {NoNode, Text(<<"k">>)}}
ScoredItems ==
    [depth : {1, 2}, identifier : {I1}, title : {NoNode},
     identifierref : {R1},
     masteryscore : {NoNode, Text(None), Text(<<"8", "0">>), Text(<<"5", "0">>)}]
ScoredItemLists == {items \in SeqsUpTo(ScoredItems, 2) : WellNested(items)}
DescribedPackages ==
    {Package({ManifestName},
             Manifest(PlainTag, md, <<>>, <<>>, <<>>, sq)) :
        md \in MetadataLists, sq \in SequencingLists}
    \cup
    {Package({ManifestName},
             Manifest(PlainTag, <<>>, <<>>, items,
                      <<[identifier |-> R1, href |-> FileSlash, scormtype |-> SCO]>>,
                      <<>>)) :
        items \in ScoredItemLists}

----------------------------------------------------------------------------
(* Values of the variables an operation has not set *)

NotRun == [raised |-> FALSE, exception |-> "", value |-> EmptyDict]
NotParsed == [raised |-> FALSE, exception |-> "", value |-> NoResult]

CoreIdle ==
    /\ ns = EmptyDict
    /\ analysis = NotParsed
    /\ flat_list = <<>>

SessionIdle ==
    /\ analysis_data = NoResult
    /\ file_processed_id = NoFileId
    /\ uploaded_file = NoNode
    /\ input_method = "Upload"
    /\ rerun_pending = FALSE
    /\ last_step = "none"
    /\ uploads = <<>>

----------------------------------------------------------------------------
(* The validator and the metadata extractor applied to a parsed manifest *)

InitCore ==
    /\ \/ IsRefPackage(scorm_file, MaxElements)
       \/ IsTypePackage(scorm_file, MaxElements)
       \/ scorm_file \in DescribedPackages
    /\ pc = {}
    /\ findings = <<>>
    /\ metadata = NotRun
    /\ CoreIdle
    /\ SessionIdle

Validate ==
    /\ "validate" \notin pc
    /\ findings' = validate_scorm_package(scorm_file.namelist, scorm_file.root)
    /\ pc' = pc \cup {"validate"}
    /\ UNCHANGED <<scorm_file, metadata, ns, analysis, flat_list>>
    /\ UNCHANGED sessionVars

ExtractMetadata ==
    /\ "extract" \notin pc
    /\ metadata' = extract_metadata(scorm_file.root)
    /\ pc' = pc \cup {"extract"}
    /\ UNCHANGED <<scorm_file, findings, ns, analysis, flat_list>>
    /\ UNCHANGED sessionVars

NextCore == Validate \/ ExtractMetadata

SpecCore == InitCore /\ [][NextCore]_vars

----------------------------------------------------------------------------
(* Properties of the validator *)

Root == scorm_file.root

\* position of index i among the indices of set S, counted from 1
Rank(S, i) == Cardinality({j \in S : j <= i})

FindingsOfKind(kind) ==
    SelectSeq(findings, LAMBDA f : f.message[1] = kind)

BrokenItems ==
    {i \in 1..Len(Root.items) :
        /\ Root.items[i].identifierref \notin {None, <<>>}
        /\ \A r \in 1..Len(Root.resources) :
              Root.resources[r].identifier # Root.items[i].identifierref}

\* C1: once validate_scorm_package has returned, the "Broken Link" findings are,
\* in document order, exactly one ERROR finding per item whose identifierref is
\* non-empty and is no resource's identifier, and the message names the item's
\* identifier and the reference; no other item has such a finding.
C1_BrokenLinkPerItem ==
    "validate" \in pc =>
        LET links == FindingsOfKind("Broken Link: Item '")
        IN /\ Len(links) = Cardinality(BrokenItems)
           /\ \A i \in BrokenItems :
                 links[Rank(BrokenItems, i)] =
                    [level |-> "ERROR",
                     message |-> <<"Broken Link: Item '">>
                                 \o Str(Root.items[i].identifier)
                                 \o <<"' references non-existent resource '">>
                                 \o Root.items[i].identifierref \o <<"'.">>]

C1_Witness ==
    /\ "validate" \in pc
    /\ BrokenItems # {}
    /\ \E i \in 1..Len(Root.items) :
          /\ i \notin BrokenItems
          /\ Root.items[i].identifierref \notin {None, <<>>}

Normalized(href) == [i \in 1..Len(href) |-> IF href[i] = "\\" THEN "/" ELSE href[i]]

MissingResources ==
    {i \in 1..Len(Root.resources) :
        /\ Root.resources[i].href \notin {None, <<>>}
        /\ Normalized(Root.resources[i].href) \notin scorm_file.namelist}

\* C2: once validate_scorm_package has returned, the "Missing File" findings are,
\* in document order, exactly one ERROR finding per resource whose non-empty
\* href, with backslashes replaced by slashes, is no entry of the archive, and
\* the message names the resource's identifier and the href as written; no
\* other resource has such a finding.
C2_MissingFilePerResource ==
    "validate" \in pc =>
        LET files == FindingsOfKind("Missing File: Resource '")
        IN /\ Len(files) = Cardinality(MissingResources)
           /\ \A i \in MissingResources :
                 files[Rank(MissingResources, i)] =
                    [level |-> "ERROR",
                     message |-> <<"Missing File: Resource '">>
                                 \o Str(Root.resources[i].identifier)
                                 \o <<"' points to '">> \o Root.resources[i].href
                                 \o <<"' which is missing from the zip.">>]

C2_Witness ==
    /\ "validate" \in pc
    /\ MissingResources # {}
    /\ \E i \in 1..Len(Root.resources) :
          /\ i \notin MissingResources
          /\ Root.resources[i].href = FileBackslash
    /\ \E i \in 1..Len(Root.resources) : Root.resources[i].href = <<>>
    /\ FileBackslash \in scorm_file.namelist

----------------------------------------------------------------------------
(* Properties of the metadata extractor *)

Extracted == "extract" \in pc /\ ~metadata.raised

Md == metadata.value

\* C3 as claimed: SCO Count + Asset Count is the number of resource elements,
\* whatever their scormtype.
C3_CountsCoverAllResources ==
    Extracted => Md["SCO Count"] + Md["Asset Count"] = Len(Root.resources)

TypedResources ==
    {i \in 1..Len(Root.resources) :
        Root.resources[i].scormtype \in {None, SCO, ASSET}}

\* C3 as amended: SCO Count + Asset Count is the number of resource elements
\* whose scormtype is absent, 'sco' or 'asset'; a resource with any other
\* scormtype is in neither count.
C3_CountsCoverTypedResources ==
    Extracted =>
        /\ Md["SCO Count"] + Md["Asset Count"] = Cardinality(TypedResources)
        /\ Md["SCO Count"] =
              Cardinality({i \in TypedResources : Root.resources[i].scormtype = SCO})

C3_Witness ==
    /\ Extracted
    /\ \E i \in 1..Len(Root.resources) : i \notin TypedResources
    /\ \E i \in 1..Len(Root.resources) : Root.resources[i].scormtype = None
    /\ Md["SCO Count"] = 1

AllKeys ==
    {"Description", "Keywords", "Passing Score", "Launch File",
     "SCORM Type (Primary)", "SCO Count", "Asset Count"}

\* C4 as claimed: the returned record holds every field key, with the 'N/A'
\* sentinel where the manifest lacks the data.
C4_EveryKeyPresent ==
    Extracted => AllKeys \subseteq DOMAIN Md

FirstItemResolves ==
    /\ Root.items # <<>>
    /\ Root.items[1].identifierref \notin {None, <<>>}
    /\ \E r \in 1..Len(Root.resources) :
          Root.resources[r].identifier = Root.items[1].identifierref

\* C4 as amended: Description, Keywords, SCO Count and Asset Count are always
\* present ('N/A' for the first two when the manifest has no metadata node);
\* Passing Score is present exactly when the manifest has an item; Launch File
\* and SCORM Type (Primary) are present exactly when the first item has a
\* non-empty identifierref that is some resource's identifier, and are omitted
\* otherwise.
C4_KeysPresentWhenResolved ==
    Extracted =>
        /\ {"Description", "Keywords", "SCO Count", "Asset Count"} \subseteq DOMAIN Md
        /\ Root.metadata = <<>> => Md["Description"] = NA /\ Md["Keywords"] = NA
        /\ "Passing Score" \in DOMAIN Md <=> Root.items # <<>>
        /\ "Launch File" \in DOMAIN Md <=> FirstItemResolves
        /\ "SCORM Type (Primary)" \in DOMAIN Md <=> FirstItemResolves

C4_Witness ==
    /\ Extracted
    /\ Root.items # <<>>
    /\ Root.resources # <<>>
    /\ ~FirstItemResolves
    /\ "Launch File" \notin DOMAIN Md
    /\ Md["Passing Score"] = NA

\* C9 as claimed: 'Sequencing Rules' is in the metadata exactly when the
\* manifest has a sequencing node, with or without child elements, which is
\* exactly when the validator reports SCORM 2004.
C9_SequencingRulesIffNode ==
    (Extracted /\ "validate" \in pc) =>
        /\ "Sequencing Rules" \in DOMAIN Md <=> Root.sequencing # <<>>
        /\ "Sequencing Rules" \in DOMAIN Md <=>
              findings[1].message = <<"Detected Version: ", "SCORM 2004", ".">>

----------------------------------------------------------------------------
(* parse_scorm applied to a package, and its structure flattened for display *)

UriChars == {"u", ":", "{"}
Uris(n) == UNION {SeqsOfLen(UriChars, k) : k \in 1..n}
LocalNames == {<<"manifest">>, <<"m">>}
QualifiedTag(uri, local) == <<"{">> \o uri \o <<"}">> \o local
RootTags(n) == LocalNames \cup {QualifiedTag(u, l) : u \in Uris(n), l \in LocalNames}

TwoResources ==
    <<[identifier |-> R1, href |-> FileSlash, scormtype |-> SCO],
      [identifier |-> R2, href |-> <<>>, scormtype |-> None]>>

\* packages whose item tree varies
TreeItems(n) ==
    [depth : 1..n, identifier : {I1},
     title : {Text(<<"A">>), Text(<<"B">>)},
     identifierref : {None, R1, R2}, masteryscore : {NoNode}]
IsTreePackage(package, n) ==
    \E k \in 0..n : \E items \in SeqsOfLen(TreeItems(n), k) :
        /\ WellNested(items)
        /\ package = Package({ManifestName, FileSlash},
                             Manifest(PlainTag, <<>>, <<[title |-> Text(<<"C">>)]>>,
                                      items, TwoResources, <<>>))

\* packages with and without a zip container, a manifest entry, a well-formed
\* manifest, an organization
SmallItemLists ==
    SeqsUpTo([depth : {1}, identifier : {I1}, title : {NoNode, Text(<<" ", "A">>)},
              identifierref : {None, R1, RQ}, masteryscore : {NoNode}], 2)
Organizations ==
    {<<>>, <<[title |-> NoNode]>>, <<[title |-> Text(<<"C">>)]>>}
EntryNames ==
    {ManifestName, <<"IMSMANIFEST.XML">>, <<"sub", "/", "imsmanifest.xml">>}
ContainerPackages ==
    {[is_zip |-> z, namelist |-> names, well_formed |-> w,
      root |-> Manifest(PlainTag, <<>>, org, items, TwoResources, sq)] :
        z \in BOOLEAN, w \in BOOLEAN, names \in SUBSET EntryNames,
        org \in Organizations, items \in SmallItemLists,
        sq \in {<<>>, <<[children |-> <<>>]>>}}

\* packages whose root tag varies
TagPackages(n) ==
    {Package({ManifestName},
             Manifest(tag, <<>>, <<[title |-> NoNode]>>, <<>>, <<>>, <<>>)) :
        tag \in RootTags(n)}

SourceName == <<"file">>

InitParse ==
    /\ \/ IsTreePackage(scorm_file, MaxItems)
       \/ scorm_file \in ContainerPackages
       \/ scorm_file \in TagPackages(MaxUriLen)
    /\ pc = {}
    /\ findings = <<>>
    /\ metadata = NotRun
    /\ CoreIdle
    /\ SessionIdle

ParseScorm ==
    /\ "parse" \notin pc
    /\ analysis' = parse_scorm(scorm_file, SourceName)
    /\ ns' = NamespacesOf(scorm_file)
    /\ pc' = pc \cup {"parse"}
    /\ UNCHANGED <<scorm_file, findings, metadata, flat_list>>
    /\ UNCHANGED sessionVars

\* the display of a result: flatten_structure(data['structure'])
Flatten ==
    /\ "parse" \in pc
    /\ "flatten" \notin pc
    /\ ~analysis.raised
    /\ analysis.value # NoResult
    /\ flat_list' = flatten_structure(analysis.value[1].structure, <<>>)
    /\ pc' = pc \cup {"flatten"}
    /\ UNCHANGED <<scorm_file, findings, metadata, ns, analysis>>
    /\ UNCHANGED sessionVars

NextParse == ParseScorm \/ Flatten

SpecParse == InitParse /\ [][NextParse]_vars

----------------------------------------------------------------------------
(* Properties of parse_scorm *)

Parsed == "parse" \in pc

Fatal(f) == ~f.is_zip \/ ManifestName \notin f.namelist \/ ~f.well_formed

\* C5: parse_scorm returns None, and lets no exception escape, whenever the
\* input is no zip archive, the archive has no entry named exactly
\* 'imsmanifest.xml', or the manifest is not well-formed.
C5_FatalInputsReturnNone ==
    (Parsed /\ Fatal(scorm_file)) => (~analysis.raised /\ analysis.value = NoResult)

C5_Witness ==
    /\ Parsed
    /\ scorm_file.is_zip
    /\ ManifestName \in scorm_file.namelist
    /\ ~scorm_file.well_formed
    /\ analysis = Return(NoResult)

\* C6 as claimed: on a well-formed manifest with no organization element
\* parse_scorm returns a partial result: structure empty, course title
\* 'Unknown', metadata and validation as extract_metadata and
\* validate_scorm_package compute them.
C6_NoOrganizationPartialResult ==
    (Parsed /\ ~Fatal(scorm_file) /\ Root.organization = <<>>) =>
        /\ ~analysis.raised
        /\ analysis.value # NoResult
        /\ analysis.value[1].structure = <<>>
        /\ analysis.value[1].course_title = <<"Unknown">>
        /\ analysis.value[1].metadata = extract_metadata(Root).value
        /\ analysis.value[1].validation =
              validate_scorm_package(scorm_file.namelist, Root)

\* C8: after parse_scorm has built its namespace dictionary, 'imscp' is the
\* URI between the braces of a qualified root tag and the empty string for an
\* unqualified one, and adlcp, imsss and lom are the three fixed URIs.
C8_ImscpFromRootTag ==
    (Parsed /\ ~Fatal(scorm_file)) =>
        /\ DOMAIN ns = {"imscp", "adlcp", "imsss", "lom"}
        /\ \A u \in Uris(MaxUriLen), l \in LocalNames :
              Root.root_tag = QualifiedTag(u, l) => ns["imscp"] = u
        /\ Root.root_tag \in LocalNames => ns["imscp"] = <<>>
        /\ ns["adlcp"] = <<"http://www.adlnet.org/xsd/adlcp_v1p3">>
        /\ ns["imsss"] = <<"http://www.imsglobal.org/xsd/imsss_v1p0">>
        /\ ns["lom"] = <<"http://ltsc.ieee.org/xsd/LOM">>

C8_Witness ==
    /\ Parsed
    /\ ~Fatal(scorm_file)
    /\ Root.root_tag = QualifiedTag(<<"u", ":">>, <<"manifest">>)
    /\ ns["imscp"] = <<"u", ":">>

----------------------------------------------------------------------------
(* Properties of flatten_structure *)

Structure == analysis.value[1].structure

\* positions of the structure tree: the child indices from the root list down
Positions == UNION {SeqsOfLen(1..MaxItems, n) : n \in 1..MaxItems}

RECURSIVE NodesAt(_, _)
\* the node at position p, as a sequence of zero or one node
NodesAt(items, p) ==
    IF p[1] > Len(items) THEN <<>>
    ELSE IF Len(p) = 1 THEN <<items[p[1]]>>
    ELSE NodesAt(items[p[1]].sub_items, Tail(p))

TreePositions == {p \in Positions : NodesAt(Structure, p) # <<>>}
NodeAt(p) == NodesAt(Structure, p)[1]
FilePositions == {p \in TreePositions : NodeAt(p).resource_href \notin {None, <<>>}}

\* p comes before q in pre-order: p is an ancestor of q, or p branches off to
\* an earlier sibling
PreOrderBefore(p, q) ==
    \/ Len(p) < Len(q) /\ SubSeq(q, 1, Len(p)) = p
    \/ \E i \in 1..Len(p) :
          /\ i <= Len(q)
          /\ SubSeq(p, 1, i - 1) = SubSeq(q, 1, i - 1)
          /\ p[i] < q[i]

RECURSIVE TitlePath(_, _)
\* the titles of the nodes on the way to position p, the first n of them,
\* joined by ' -> '
TitlePath(p, n) ==
    IF n = 1 THEN NodeAt(SubSeq(p, 1, 1)).title
    ELSE TitlePath(p, n - 1) \o <<" ", "-", ">", " ">> \o NodeAt(SubSeq(p, 1, n)).title

\* C7: the rows flatten_structure returns are one per node with a non-empty
\* resource_href, in pre-order, each with the node's file and identifier and
\* with the titles from the root down to the node joined by ' -> ' as its Path.
C7_RowsArePreOrderFileNodes ==
    "flatten" \in pc =>
        /\ Len(flat_list) = Cardinality(FilePositions)
        /\ \A p \in FilePositions :
              flat_list[Cardinality({q \in FilePositions : PreOrderBefore(q, p)}) + 1] =
                 [Path |-> TitlePath(p, Len(p)),
                  File |-> NodeAt(p).resource_href,
                  Identifier |-> NodeAt(p).identifier]

C7_Witness ==
    /\ "flatten" \in pc
    /\ Len(flat_list) = 2
    /\ \E p \in TreePositions :
          /\ Len(p) = 3
          /\ p \in FilePositions
          /\ SubSeq(p, 1, 2) \notin FilePositions
          /\ SubSeq(p, 1, 1) \in FilePositions

----------------------------------------------------------------------------
(* The Streamlit script: widgets, callbacks and script runs of one session *)

OneItem ==
    <<[depth |-> 1, identifier |-> I1, title |-> Text(<<"A">>),
       identifierref |-> R1, masteryscore |-> NoNode]>>

\* the packages a user uploads
UploadedPackages ==
    {[is_zip |-> FALSE, namelist |-> {}, well_formed |-> FALSE,
      root |-> Manifest(PlainTag, <<>>, <<>>, <<>>, <<>>, <<>>)],
     [is_zip |-> TRUE, namelist |-> {FileSlash}, well_formed |-> FALSE,
      root |-> Manifest(PlainTag, <<>>, <<>>, <<>>, <<>>, <<>>)],
     [is_zip |-> TRUE, namelist |-> {ManifestName}, well_formed |-> FALSE,
      root |-> Manifest(PlainTag, <<>>, <<>>, <<>>, <<>>, <<>>)],
     Package({ManifestName}, Manifest(PlainTag, <<>>, <<>>, OneItem, TwoResources, <<>>)),
     Package({ManifestName, FileSlash},
             Manifest(PlainTag, <<>>, <<[title |-> Text(<<"C">>)]>>, OneItem,
                      TwoResources, <<>>)),
     Package({ManifestName, FileSlash},
             Manifest(PlainTag, <<>>, <<[title |-> Text(<<"D">>)]>>, OneItem,
                      TwoResources, <<>>))}

InitSession ==
    /\ scorm_file = Package({}, Manifest(PlainTag, <<>>, <<>>, <<>>, <<>>, <<>>))
    /\ pc = {}
    /\ findings = <<>>
    /\ metadata = NotRun
    /\ CoreIdle
    /\ SessionIdle

reset_state_KeepsData ==
    /\ analysis_data' = analysis_data
    /\ file_processed_id' = NoFileId

reset_state ==
    /\ analysis_data' = NoResult
    /\ file_processed_id' = NoFileId

\* the radio widget changes: on_change=reset_state, then a rerun
SelectInputMethod ==
    /\ ~rerun_pending
    /\ input_method' = IF input_method = "Upload" THEN "URL" ELSE "Upload"
    /\ reset_state
    /\ rerun_pending' = TRUE
    /\ last_step' = "reset"
    /\ UNCHANGED <<uploaded_file, uploads>>
    /\ UNCHANGED coreVars

\* a file is put into the file_uploader: on_change=reset_state, then a rerun
UploadFile ==
    /\ ~rerun_pending
    /\ input_method = "Upload"
    /\ Len(uploads) < MaxFiles
    /\ \E package \in UploadedPackages :
          /\ uploads' = Append(uploads, package)
          /\ uploaded_file' = <<[file_id |-> Len(uploads) + 1, name |-> SourceName]>>
    /\ reset_state
    /\ rerun_pending' = TRUE
    /\ last_step' = "reset"
    /\ UNCHANGED input_method
    /\ UNCHANGED coreVars

\* the file is taken out of the file_uploader: on_change=reset_state, then a rerun
RemoveFile ==
    /\ ~rerun_pending
    /\ input_method = "Upload"
    /\ uploaded_file # NoNode
    /\ uploaded_file' = NoNode
    /\ reset_state
    /\ rerun_pending' = TRUE
    /\ last_step' = "reset"
    /\ UNCHANGED <<input_method, uploads>>
    /\ UNCHANGED coreVars

\* "Clear & Start Over", shown with a result: on_click=reset_state, then a rerun
ClickClear ==
    /\ ~rerun_pending
    /\ analysis_data # NoResult
    /\ reset_state
    /\ rerun_pending' = TRUE
    /\ last_step' = "reset"
    /\ UNCHANGED <<uploaded_file, input_method, uploads>>
    /\ UNCHANGED coreVars

\* a download button, shown with a result: a rerun and no callback
ClickDownload ==
    /\ ~rerun_pending
    /\ analysis_data # NoResult
    /\ rerun_pending' = TRUE
    /\ last_step' = "rerun"
    /\ UNCHANGED <<analysis_data, file_processed_id, uploaded_file, input_method, uploads>>
    /\ UNCHANGED coreVars

\* one run of the script from its first line to st.rerun() or to its end
ScriptRun ==
    /\ rerun_pending
    /\ IF /\ input_method = "Upload"
          /\ uploaded_file # NoNode
          /\ uploaded_file[1].file_id # file_processed_id
       THEN LET outcome == parse_scorm(uploads[uploaded_file[1].file_id],
                                       uploaded_file[1].name)
            IN IF outcome.raised
               THEN \* the exception ends the run
                    /\ rerun_pending' = FALSE
                    /\ last_step' = "failed"
                    /\ UNCHANGED <<analysis_data, file_processed_id, uploaded_file>>
               ELSE /\ analysis_data' = outcome.value
                    /\ file_processed_id' = uploaded_file[1].file_id
                    /\ rerun_pending' = TRUE
                    /\ last_step' = "analysed"
                    /\ UNCHANGED uploaded_file
       ELSE /\ rerun_pending' = FALSE
            /\ last_step' = "displayed"
            \* a file_uploader that is not drawn may lose its file
            /\ \/ UNCHANGED uploaded_file
               \/ input_method = "URL" /\ uploaded_file' = NoNode
            /\ UNCHANGED <<analysis_data, file_processed_id>>
    /\ UNCHANGED <<input_method, uploads>>
    /\ UNCHANGED coreVars

NextSession ==
    \/ SelectInputMethod
    \/ UploadFile
    \/ RemoveFile
    \/ ClickClear
    \/ ClickDownload
    \/ ScriptRun

SpecSession == InitSession /\ [][NextSession]_vars

----------------------------------------------------------------------------
(* Properties of the session cache *)

ResultOfFile(id) == parse_scorm(uploads[id], SourceName).value

CacheIsCurrent ==
    /\ file_processed_id = NoFileId => analysis_data = NoResult
    /\ file_processed_id # NoFileId =>
          /\ file_processed_id \in 1..Len(uploads)
          /\ analysis_data = ResultOfFile(file_processed_id)
    /\ last_step = "reset" => analysis_data = NoResult /\ file_processed_id = NoFileId
    /\ (last_step = "analysed" /\ Fatal(uploads[file_processed_id])) =>
          analysis_data = NoResult /\ file_processed_id = uploaded_file[1].file_id

\* C10: in every state of a session analysis_data is None or the result of
\* analysing the upload whose id is file_processed_id; reset_state leaves both
\* None; an analysis that fails fatally leaves analysis_data None with the
\* upload's id recorded; and the script run that follows an analysing run does
\* not analyse again.
C10_CacheHoldsProcessedFile ==
    [](CacheIsCurrent) /\ [][last_step = "analysed" => last_step' # "analysed"]_vars

\* a first upload was analysed with a result, then a second one failed fatally
C10_Witness ==
    /\ Len(uploads) = 2
    /\ ResultOfFile(1) # NoResult
    /\ Fatal(uploads[2])
    /\ file_processed_id = 2
    /\ analysis_data = NoResult
    /\ last_step = "displayed"

====
